---- MODULE Spec2Model ----
(***************************************************************************)
(* Model of fix-markdown-links.py: the link resolver (replace_link and     *)
(* convert_to_github_url), the document rewriter (link_pattern.sub inside  *)
(* process_markdown_file) and the batch loop of main.                      *)
(*                                                                         *)
(* Strings are sequences of lexemes.  A lexeme is either one of the        *)
(* special characters  / . # [ ] ( )  or a word that contains none of      *)
(* them; the words form a prefix code, so a Python string over this        *)
(* vocabulary has exactly one lexeme sequence and startswith, `in`, split  *)
(* and the regular expression act on lexemes as they act on characters.    *)
(* Paths follow pathlib on POSIX in a tree without symbolic links.         *)
(***************************************************************************)
EXTENDS Integers, Sequences, FiniteSets, TLC

VARIABLES
    pc,             \* position of the modelled run
    url,            \* replace_link: match.group(2)
    file_path,      \* the document being processed (segments below the cwd)
    ret,            \* replace_link: what it returned / computed
    content,        \* process_markdown_file: text of the document
    modified,       \* process_markdown_file: the nonlocal flag
    processed,      \* main: what the last call of process_markdown_file did
    passes,         \* how many times the rewriter ran on content
    files,          \* main: the list of documents
    disk,           \* the file system: path -> [kind, text]
    disk0,          \* the file system when main started
    idx,            \* main: position in files
    updated_count,  \* main: updated_count
    out             \* what the run printed, one record per line

vars == <<pc, url, file_path, ret, content, modified, processed, passes,
          files, disk, disk0, idx, updated_count, out>>

----------------------------------------------------------------------------
(* Bounds *)

MaxSegs == 3
MaxItems == 2
MaxFiles == 2

----------------------------------------------------------------------------
(* Strings *)

SLASH == <<"/">>
DOT == <<".">>
DOTDOT == <<".", ".">>
EMPTY == <<>>

\* F applied to the value of a, which is worked out once
ByValue(F(_), a) == CHOOSE y \in { F(x) : x \in {a} } : TRUE

StartsWith(s, p) == Len(s) >= Len(p) /\ SubSeq(s, 1, Len(p)) = p

Contains(s, p) == \E i \in 1..(Len(s) - Len(p) + 1) : SubSeq(s, i, i + Len(p) - 1) = p

\* index of the first lexeme c at or after position i, 0 when there is none
IndexFrom(s, c, i) ==
    IF \E n \in i..Len(s) : s[n] = c
    THEN CHOOSE n \in i..Len(s) : s[n] = c /\ \A m \in i..(n - 1) : s[m] # c
    ELSE 0

\* position of the n-th '/' of s; 0 for n = 0, Len(s) + 1 past the last one
SlashAt(s, n) ==
    IF n = 0 THEN 0
    ELSE IF n > Cardinality({i \in 1..Len(s) : s[i] = "/"}) THEN Len(s) + 1
    ELSE CHOOSE i \in 1..Len(s) :
            s[i] = "/" /\ Cardinality({j \in 1..i : s[j] = "/"}) = n

\* str.split('/'): always at least one part
Split(s) ==
    [n \in 1..(Cardinality({i \in 1..Len(s) : s[i] = "/"}) + 1) |->
        SubSeq(s, SlashAt(s, n - 1) + 1, SlashAt(s, n) - 1)]

\* '/'.join(parts)
RECURSIVE Join(_)
Join(parts) ==
    IF Len(parts) = 0 THEN EMPTY
    ELSE IF Len(parts) = 1 THEN parts[1]
    ELSE parts[1] \o SLASH \o Join(Tail(parts))

----------------------------------------------------------------------------
(* Configuration *)

MAIN_REPO == <<"https:", "/", "/", "github", ".", "com", "/", "sayhiben", "/", "streamwall", "-suite">>

DEFAULT_BRANCH == <<"main">>

GITHUB_ORG == <<"https:", "/", "/", "github", ".", "com", "/", "streamwall", "/">>

SUBMODULES ==
    [k \in {<<"streamsource">>, <<"livestream-link-monitor">>,
            <<"livesheet-updater">>, <<"streamwall">>} |-> GITHUB_ORG \o k]

\* Path.cwd(): the repository root, an absolute path given by its segments
RepoRoot == << <<"repo">> >>

----------------------------------------------------------------------------
(* pathlib *)

\* the parts of a path string: empty and '.' segments are dropped
DropDots(parts) == SelectSeq(parts, LAMBDA p : p # EMPTY /\ p # DOT)

ParseParts(s) == DropDots(Split(s))

\* the root of a path string: "" relative, "/" absolute, "//" when it starts
\* with exactly two slashes (POSIX keeps that root apart)
PathRoot(s) ==
    IF StartsWith(s, <<"/", "/">>) /\ ~StartsWith(s, <<"/", "/", "/">>) THEN "//"
    ELSE IF StartsWith(s, SLASH) THEN "/"
    ELSE ""

\* current_file.parent for a document given by its segments below the cwd
Parent(doc) == SubSeq(doc, 1, Len(doc) - 1)

\* current_dir / relative_path: an absolute right operand replaces the left
JoinPath(dir, s) ==
    IF PathRoot(s) = "" THEN [root |-> "", parts |-> dir \o ParseParts(s)]
    ELSE [root |-> PathRoot(s), parts |-> ParseParts(s)]

\* removal of the '..' segments of an absolute path: each '..' cancels the
\* nearest segment before it that is still there, and a '..' with nothing
\* before it is dropped (the parent of the root is the root).  Worked out
\* from the last segment backwards; skip counts the '..' not yet used up.
RECURSIVE CollapseFrom(_, _, _)
CollapseFrom(parts, n, skip) ==
    IF n = 0 THEN <<>>
    ELSE IF parts[n] = DOTDOT THEN CollapseFrom(parts, n - 1, skip + 1)
    ELSE IF skip > 0 THEN CollapseFrom(parts, n - 1, skip - 1)
    ELSE Append(CollapseFrom(parts, n - 1, 0), parts[n])

Collapse(parts) == CollapseFrom(parts, Len(parts), 0)

\* Path.resolve(): make absolute against the cwd, then normalise
ResolvePath(p) ==
    IF p.root = "" THEN [root |-> "/", parts |-> Collapse(RepoRoot \o p.parts)]
    ELSE [root |-> p.root, parts |-> Collapse(p.parts)]

IsUnder(p, base) ==
    /\ p.root = "/"
    /\ Len(p.parts) >= Len(base)
    /\ SubSeq(p.parts, 1, Len(base)) = base

\* str(resolved.relative_to(repo_root)); only used when IsUnder holds
RelativeStr(p, base) ==
    LET rest == SubSeq(p.parts, Len(base) + 1, Len(p.parts)) IN
    IF Len(rest) = 0 THEN DOT ELSE Join(rest)

----------------------------------------------------------------------------
(* convert_to_github_url *)

StripDotSlash(relative_path) ==
    IF StartsWith(relative_path, <<".", "/">>)
    THEN SubSeq(relative_path, 3, Len(relative_path))
    ELSE relative_path

\* lines 27-42: the resolved path, with the fallback of the except branch
resolved_path_NoStrip(relative_path, current_file) ==
    ByValue(LAMBDA resolved :
                IF IsUnder(resolved, RepoRoot) THEN RelativeStr(resolved, RepoRoot)
                ELSE relative_path,
            ResolvePath(JoinPath(Parent(current_file), relative_path)))

resolved_path(relative_path, current_file) ==
    ByValue(LAMBDA resolved :
                IF IsUnder(resolved, RepoRoot) THEN RelativeStr(resolved, RepoRoot)
                ELSE StripDotSlash(relative_path),
            ResolvePath(JoinPath(Parent(current_file), StripDotSlash(relative_path))))

BLOB == SLASH \o <<"blob">> \o SLASH \o DEFAULT_BRANCH \o SLASH

\* lines 44-52: classification of a resolved path
classify_KeepKey(rp) ==
    LET path_parts == Split(rp) IN
    IF path_parts[1] \in DOMAIN SUBMODULES
    THEN SUBMODULES[path_parts[1]] \o BLOB \o rp
    ELSE MAIN_REPO \o BLOB \o rp

classify(rp) ==
    LET path_parts == Split(rp) IN
    IF path_parts[1] \in DOMAIN SUBMODULES
    THEN SUBMODULES[path_parts[1]] \o BLOB \o Join(Tail(path_parts))
    ELSE MAIN_REPO \o BLOB \o rp

convert_to_github_url(relative_path, current_file) ==
    ByValue(classify, resolved_path(relative_path, current_file))

----------------------------------------------------------------------------
(* replace_link *)

HTTP == <<"http:", "/", "/">>
HTTPS == <<"https:", "/", "/">>
HASH == <<"#">>

\* line 74
is_exempt_NoAnchor(u) == StartsWith(u, HTTP) \/ StartsWith(u, HTTPS)

is_exempt_NoHttps(u) == StartsWith(u, HTTP) \/ StartsWith(u, HASH)

is_exempt(u) == StartsWith(u, HTTP) \/ StartsWith(u, HTTPS) \/ StartsWith(u, HASH)

\* lines 78-83
needs_conversion(u) ==
    \/ Contains(u, <<".", ".", "/">>)
    \/ StartsWith(u, <<".", "/">>)
    \/ \E submodule \in DOMAIN SUBMODULES : StartsWith(u, submodule \o SLASH)
    \/ Split(u)[1] \in DOMAIN SUBMODULES

\* the target written to the output, whether it was converted, and the
\* resolved path convert_to_github_url worked with
replace_link(u, current_file) ==
    IF is_exempt(u) THEN [converted |-> FALSE, target |-> u, resolved |-> EMPTY]
    ELSE IF needs_conversion(u)
         THEN [converted |-> TRUE,
               target |-> convert_to_github_url(u, current_file),
               resolved |-> resolved_path(u, current_file)]
    ELSE [converted |-> FALSE, target |-> u, resolved |-> EMPTY]

----------------------------------------------------------------------------
(* link_pattern and link_pattern.sub *)

\* line 67: the match of \[([^\]]+)\]\(([^)]+)\) that starts at position i,
\* or found = FALSE.  The label runs to the first ']' and the target to the
\* first ')', so there is at most one way to match at i.
MatchAt(text, i) ==
    LET j == IndexFrom(text, "]", i + 1)
        k == IF j = 0 THEN 0 ELSE IndexFrom(text, ")", j + 2)
        ok == /\ i <= Len(text) /\ text[i] = "["
              /\ j > i + 1
              /\ j + 1 <= Len(text) /\ text[j + 1] = "("
              /\ k > j + 2
    IN  IF ok
        THEN [found |-> TRUE, last |-> k,
              label |-> SubSeq(text, i + 1, j - 1),
              target |-> SubSeq(text, j + 2, k - 1)]
        ELSE [found |-> FALSE, last |-> 0, label |-> EMPTY, target |-> EMPTY]

\* lines 69-94: the text from position i on with every match replaced by what
\* replace_link returns, scanning left to right without overlap
RECURSIVE SubText(_, _, _)
SubText(text, i, current_file) ==
    IF i > Len(text) THEN EMPTY
    ELSE IF MatchAt(text, i).found
         THEN <<"[">> \o MatchAt(text, i).label \o <<"]", "(">>
                  \o ByValue(LAMBDA u : replace_link(u, current_file),
                             MatchAt(text, i).target).target
                  \o <<")">>
                  \o ByValue(LAMBDA k : SubText(text, k, current_file),
                             MatchAt(text, i).last + 1)
    ELSE <<text[i]>> \o SubText(text, i + 1, current_file)

\* line 88: whether replace_link converted some match from position i on
RECURSIVE SubModified(_, _, _)
SubModified(text, i, current_file) ==
    IF i > Len(text) THEN FALSE
    ELSE IF MatchAt(text, i).found
         THEN \/ ByValue(LAMBDA u : replace_link(u, current_file),
                         MatchAt(text, i).target).converted
              \/ ByValue(LAMBDA k : SubModified(text, k, current_file),
                         MatchAt(text, i).last + 1)
    ELSE SubModified(text, i + 1, current_file)

link_pattern_sub(text, current_file) ==
    [text |-> SubText(text, 1, current_file),
     modified |-> SubModified(text, 1, current_file)]

----------------------------------------------------------------------------
(* Inputs of the resolver *)

\* path segments a target is built from
Segments ==
    { EMPTY, DOT, DOTDOT, <<"a">>, <<"a", ".", ".">>, <<"#">>,
      <<"http:">>, <<"https:">>, <<"repo">>,
      <<"streamsource">>, <<"streamwall">>, <<"streamwall", "-docs">> }

SegLists == UNION { [1..n -> Segments] : n \in 1..MaxSegs }

\* match.group(2) is never empty: the pattern is ([^)]+)
Targets == { Join(sl) : sl \in SegLists } \ { EMPTY }

GUIDE_MD == <<"guide", ".", "md">>
README_MD == <<"README", ".", "md">>

\* documents, by their segments below the cwd
DocPaths ==
    { <<GUIDE_MD>>, << <<"docs">>, GUIDE_MD >>, << <<"streamsource">>, README_MD >> }

NoRet == [converted |-> FALSE, target |-> EMPTY, resolved |-> EMPTY]

NoCall == [path |-> <<>>, text |-> EMPTY, modified |-> FALSE, result |-> FALSE,
           lines |-> <<>>]

----------------------------------------------------------------------------
(* The resolver applied to one link target *)

InitResolve ==
    /\ pc = "call"
    /\ url \in Targets
    /\ file_path \in DocPaths
    /\ ret = NoRet
    /\ content = EMPTY
    /\ modified = FALSE
    /\ processed = NoCall
    /\ passes = 0
    /\ files = <<>>
    /\ disk = <<>>
    /\ disk0 = <<>>
    /\ idx = 0
    /\ updated_count = 0
    /\ out = <<>>

\* lines 69-91: one call of replace_link
CallReplaceLink ==
    /\ pc = "call"
    /\ ret' = replace_link(url, file_path)
    /\ pc' = "returned"
    /\ UNCHANGED <<url, file_path, content, modified, processed, passes,
                   files, disk, disk0, idx, updated_count, out>>

NextResolve == CallReplaceLink

SpecResolve == InitResolve /\ [][NextResolve]_vars

----------------------------------------------------------------------------
(* Vocabulary of the resolver's contract *)

\* '..' as a whole path segment of u
HasTraversalSegment(u) ==
    \E i \in 1..(Len(u) - 1) :
        /\ u[i] = "." /\ u[i + 1] = "."
        /\ (i = 1 \/ u[i - 1] = "/")
        /\ (i + 1 = Len(u) \/ u[i + 2] = "/")

\* the part of u before its first '/', all of u when it has none
FirstSegment(u) ==
    IF \E i \in 1..Len(u) : u[i] = "/"
    THEN LET k == CHOOSE i \in 1..Len(u) : u[i] = "/" /\ \A j \in 1..(i - 1) : u[j] # "/"
         IN  SubSeq(u, 1, k - 1)
    ELSE u

\* the part of u after its first '/', empty when it has none
AfterFirstSegment(u) == SubSeq(u, Len(FirstSegment(u)) + 2, Len(u))

IsCandidate(u) ==
    /\ ~(Len(u) >= 3 /\ u[1] \in {"http:", "https:"} /\ u[2] = "/" /\ u[3] = "/")
    /\ ~(Len(u) >= 1 /\ u[1] = "#")

HasDotSlashPrefix(u) == Len(u) >= 2 /\ u[1] = "." /\ u[2] = "/"

Returned == pc = "returned"

\* C1: a target that begins with 'http://', 'https://' or '#' is returned
\* unchanged, whatever the document
C1_ExemptUnchanged ==
    (Returned /\ ~IsCandidate(url)) => (~ret.converted /\ ret.target = url)

C1_Witness ==
    /\ Returned /\ ~IsCandidate(url) /\ ~ret.converted
    /\ HasTraversalSegment(url)

\* C2: a candidate with no '..' segment, no './' prefix and a first segment
\* that is not a registry key is returned unchanged
C2_PlainUnchanged ==
    (/\ Returned /\ IsCandidate(url)
     /\ ~HasTraversalSegment(url)
     /\ ~HasDotSlashPrefix(url)
     /\ FirstSegment(url) \notin DOMAIN SUBMODULES)
    => (~ret.converted /\ ret.target = url)

\* C3: a candidate with a '..' segment anywhere, a './' prefix or a first
\* segment that is a registry key is converted
C3_SelectedConverted ==
    (/\ Returned /\ IsCandidate(url)
     /\ \/ HasTraversalSegment(url)
        \/ HasDotSlashPrefix(url)
        \/ FirstSegment(url) \in DOMAIN SUBMODULES)
    => ret.converted

\* C5: the replacement is the base URL of the sub-namespace named by the
\* first segment of the resolved path, then /blob/main/ and the rest of the
\* path; with no such sub-namespace it is the main base URL, /blob/main/ and
\* the whole resolved path
C5_Classification ==
    (Returned /\ ret.converted) =>
        LET first == FirstSegment(ret.resolved) IN
        /\ first \in DOMAIN SUBMODULES =>
               ret.target = SUBMODULES[first] \o <<"/", "blob", "/", "main", "/">>
                                \o AfterFirstSegment(ret.resolved)
        /\ first \notin DOMAIN SUBMODULES =>
               ret.target = MAIN_REPO \o <<"/", "blob", "/", "main", "/">> \o ret.resolved
        /\ (file_path = << <<"docs">>, GUIDE_MD >>
              /\ url = <<".", ".", "/", "streamsource", "/", "a">>) =>
               ret.target = SUBMODULES[<<"streamsource">>] \o <<"/", "blob", "/", "main", "/", "a">>
        /\ (file_path = << <<"docs">>, GUIDE_MD >> /\ url = <<".", "/", "a">>) =>
               ret.target = MAIN_REPO \o <<"/", "blob", "/", "main", "/", "docs", "/", "a">>

C5_Witness ==
    /\ Returned /\ ret.converted
    /\ file_path = << <<"docs">>, GUIDE_MD >>
    /\ url = <<".", ".", "/", "streamsource", "/", "a">>
    /\ ret.resolved = <<"streamsource", "/", "a">>

\* the segments of an absolute path with '.', '' and '..' removed, worked out
\* from the first segment on: kept holds the segments still standing
RECURSIVE NormalFrom(_, _)
NormalFrom(kept, todo) ==
    IF Len(todo) = 0 THEN kept
    ELSE IF Head(todo) = EMPTY \/ Head(todo) = DOT THEN NormalFrom(kept, Tail(todo))
    ELSE IF Head(todo) = DOTDOT
         THEN NormalFrom(IF Len(kept) = 0 THEN kept ELSE SubSeq(kept, 1, Len(kept) - 1),
                         Tail(todo))
    ELSE NormalFrom(Append(kept, Head(todo)), Tail(todo))

\* the target without one leading './'
Stripped(u) == IF HasDotSlashPrefix(u) THEN SubSeq(u, 3, Len(u)) ELSE u

\* the absolute normal form of target t joined to the directory of doc
NormalTarget(t, doc) ==
    LET abs == IF Len(t) >= 1 /\ t[1] = "/"
               THEN Split(t)
               ELSE RepoRoot \o SubSeq(doc, 1, Len(doc) - 1) \o Split(t)
    IN  NormalFrom(<<>>, abs)

\* t names a path under the working root; a path that begins with exactly
\* two slashes is on a root of its own
UnderRoot(t, doc) ==
    /\ ~(Len(t) >= 2 /\ t[1] = "/" /\ t[2] = "/" /\ ~(Len(t) >= 3 /\ t[3] = "/"))
    /\ Len(NormalTarget(t, doc)) >= Len(RepoRoot)
    /\ SubSeq(NormalTarget(t, doc), 1, Len(RepoRoot)) = RepoRoot

RelativeToRoot(t, doc) ==
    LET n == NormalTarget(t, doc)
        r == SubSeq(n, Len(RepoRoot) + 1, Len(n))
    IN  IF r = <<>> THEN DOT ELSE Join(r)

C10_NoDoubleSlash ==
    (Returned /\ ret.converted) =>
        ~\E i \in 3..(Len(ret.target) - 1) :
            ret.target[i] = "/" /\ ret.target[i + 1] = "/"

----------------------------------------------------------------------------
(* The rewriter applied twice to one document text *)

Link(label, target) == <<"[">> \o label \o <<"]", "(">> \o target \o <<")">>

SampleLabels == { <<"x">>, <<"[", "x">> }

SampleTargets ==
    { <<".", "/", "a">>,
      <<".", ".", "/", "streamsource", "/", "a">>,
      <<".", ".", "/", "[", "x", "]", "(", ".", "/", "a">>,
      <<".", ".">>,
      <<"#", "a">>,
      <<"https:", "/", "/", "a">>,
      <<"streamwall", "-docs", "/", "a">> }

\* pieces of text that are not a link by themselves
Noise == { <<"x">>, <<"[", "x", "]", "(">>, <<")">>, <<"]", "(", ".", "/", "a", ")">> }

Items == { Link(l, t) : l \in SampleLabels, t \in SampleTargets } \cup Noise

RECURSIVE Flatten(_)
Flatten(ss) == IF Len(ss) = 0 THEN EMPTY ELSE Head(ss) \o Flatten(Tail(ss))

Documents == { Flatten(il) : il \in UNION { [1..n -> Items] : n \in 0..MaxItems } }

InitRewrite ==
    /\ pc = "rewrite"
    /\ content \in Documents
    /\ file_path \in DocPaths
    /\ modified = FALSE
    /\ processed = NoCall
    /\ passes = 0
    /\ url = EMPTY
    /\ ret = NoRet
    /\ files = <<>>
    /\ disk = <<>>
    /\ disk0 = <<>>
    /\ idx = 0
    /\ updated_count = 0
    /\ out = <<>>

\* lines 64-94 on the text in hand: one pass of the rewriter
Rewrite ==
    /\ pc = "rewrite"
    /\ passes < 2
    /\ LET r == link_pattern_sub(content, file_path) IN
        /\ content' = r.text
        /\ modified' = r.modified
    /\ passes' = passes + 1
    /\ UNCHANGED <<pc, url, file_path, ret, processed, files, disk, disk0, idx, updated_count, out>>

NextRewrite == Rewrite

SpecRewrite == InitRewrite /\ [][NextRewrite]_vars

----------------------------------------------------------------------------
(* process_markdown_file and main over a list of documents *)

\* how a call of write_text can end.  The file is opened for writing, which
\* truncates it, and then the text is written: the call succeeds, or fails
\* before the file is opened, or fails after the file was truncated, with
\* nothing or with the first half of the text on disk (the two stand for the
\* partial writes).
WriteOutcomes == { "ok", "not_opened", "truncated", "half_written" }

\* line 98: the text on disk after write_text
write_text(old, new, w) ==
    CASE w = "ok" -> new
      [] w = "not_opened" -> old
      [] w = "truncated" -> EMPTY
      [] w = "half_written" -> SubSeq(new, 1, Len(new) \div 2)

Line(kind, path, n) == [kind |-> kind, path |-> path, n |-> n]

\* lines 96-104 of process_markdown_file, once the text was read and r is
\* what link_pattern.sub made of it
finish_ReturnFlag(path, old, r, w) ==
    IF ~r.modified
    THEN [path |-> path, text |-> old, modified |-> FALSE, result |-> FALSE,
          lines |-> <<Line("processing", path, 0)>>]
    ELSE [path |-> path, text |-> write_text(old, r.text, w), modified |-> TRUE,
          result |-> TRUE,
          lines |-> <<Line("processing", path, 0),
                      Line(IF w = "ok" THEN "updated" ELSE "error_writing", path, 0)>>]

finish(path, old, r, w) ==
    IF ~r.modified
    THEN [path |-> path, text |-> old, modified |-> FALSE, result |-> FALSE,
          lines |-> <<Line("processing", path, 0)>>]
    ELSE [path |-> path, text |-> write_text(old, r.text, w), modified |-> TRUE,
          result |-> (w = "ok"),
          lines |-> <<Line("processing", path, 0),
                      Line(IF w = "ok" THEN "updated" ELSE "error_writing", path, 0)>>]

\* lines 54-104: the text left on disk, the flag, the returned value and the
\* lines printed, for a regular file holding text `old`
process_markdown_file(path, old, readOK, w) ==
    IF ~readOK
    THEN [path |-> path, text |-> old, modified |-> FALSE, result |-> FALSE,
          lines |-> <<Line("processing", path, 0), Line("error_reading", path, 0)>>]
    ELSE ByValue(LAMBDA r : finish(path, old, r, w), link_pattern_sub(old, path))

\* texts of the documents of a batch
BatchTexts ==
    { <<"x">>,
      Link(<<"x">>, <<"#", "a">>) \o <<"x">>,
      Link(<<"x">>, <<".", "/", "a">>),
      <<"x">> \o Link(<<"x">>, <<".", ".", "/", "streamsource", "/", "a">>)
              \o Link(<<"x">>, <<"https:", "/", "/", "a">>) }

\* what a path names: nothing, a directory, or a regular file with a text
Entries ==
    { [kind |-> "missing", text |-> EMPTY], [kind |-> "dir", text |-> EMPTY] }
        \cup { [kind |-> "file", text |-> t] : t \in BatchTexts }

\* lists of distinct documents
FileLists ==
    { fl \in UNION { [1..n -> DocPaths] : n \in 0..MaxFiles } :
        \A i, j \in 1..Len(fl) : i # j => fl[i] # fl[j] }

Range(f) == { f[i] : i \in DOMAIN f }

InitBatch ==
    /\ pc = "loop"
    /\ files \in FileLists
    /\ disk \in [Range(files) -> Entries]
    /\ disk0 = disk
    /\ idx = 1
    /\ updated_count = 0
    /\ out = <<>>
    /\ file_path = <<>>
    /\ content = EMPTY
    /\ modified = FALSE
    /\ processed = NoCall
    /\ passes = 0
    /\ url = EMPTY
    /\ ret = NoRet

\* lines 134-139, else branch: the path is missing or not a regular file
MainSkip ==
    /\ pc = "loop"
    /\ idx <= Len(files)
    /\ disk[files[idx]].kind # "file"
    /\ out' = Append(out, Line("warning", files[idx], 0))
    /\ idx' = idx + 1
    /\ UNCHANGED <<pc, url, file_path, ret, content, modified, processed, passes,
                   files, disk, disk0, updated_count>>

\* lines 134-137: a regular file is processed; whether the read succeeds and
\* how the write ends is the environment's choice
MainProcess_Abort ==
    /\ pc = "loop"
    /\ idx <= Len(files)
    /\ disk[files[idx]].kind = "file"
    /\ \E readOK \in BOOLEAN : \E w \in WriteOutcomes :
        /\ processed' = process_markdown_file(files[idx], disk[files[idx]].text, readOK, w)
        /\ pc' = IF readOK THEN "loop" ELSE "aborted"
    /\ disk' = [disk EXCEPT ![files[idx]].text = processed'.text]
    /\ out' = out \o processed'.lines
    /\ updated_count' = IF processed'.result THEN updated_count + 1 ELSE updated_count
    /\ idx' = idx + 1
    /\ UNCHANGED <<url, file_path, ret, content, modified, passes, files, disk0>>

MainProcess ==
    /\ pc = "loop"
    /\ idx <= Len(files)
    /\ disk[files[idx]].kind = "file"
    /\ \E readOK \in BOOLEAN : \E w \in WriteOutcomes :
        processed' = process_markdown_file(files[idx], disk[files[idx]].text, readOK, w)
    /\ disk' = [disk EXCEPT ![files[idx]].text = processed'.text]
    /\ out' = out \o processed'.lines
    /\ updated_count' = IF processed'.result THEN updated_count + 1 ELSE updated_count
    /\ idx' = idx + 1
    /\ UNCHANGED <<pc, url, file_path, ret, content, modified, passes, files, disk0>>

\* line 141: the summary after the loop
MainSummary ==
    /\ pc = "loop"
    /\ idx > Len(files)
    /\ out' = Append(out, Line("summary", <<>>, updated_count))
    /\ pc' = "done"
    /\ UNCHANGED <<url, file_path, ret, content, modified, processed, passes,
                   files, disk, disk0, idx, updated_count>>

NextBatch == MainSkip \/ MainProcess \/ MainSummary

SpecBatch == InitBatch /\ [][NextBatch]_vars

\* main is straight-line sequential code: a run that is not interrupted
\* keeps taking its next step until it has printed the summary
FairBatch == SpecBatch /\ WF_vars(NextBatch)

----------------------------------------------------------------------------
(* Vocabulary of the batch's contract *)

HasLine(kind, path) == \E i \in 1..Len(out) : out[i].kind = kind /\ out[i].path = path

Called == processed # NoCall

\* the documents the run turned to, in the order of its output
Visited ==
    LET v == SelectSeq(out, LAMBDA l : l.kind \in {"processing", "warning"})
    IN  [i \in 1..Len(v) |-> v[i].path]

UpdatedLines == SelectSeq(out, LAMBDA l : l.kind = "updated")

\* C7 as stated: the value returned for a document is the flag (some link
\* occurrence produced a replacement), and a document without a replacement
\* keeps its content
C7_ResultIffReplacement ==
    Called =>
        /\ processed.result = processed.modified
        /\ ~processed.modified => disk[processed.path] = disk0[processed.path]

\* C7 (amended): the value returned for a document is true exactly when some
\* link occurrence produced a replacement and the write did not fail, and a
\* document without a replacement keeps its content
C7_ResultIffWritten ==
    Called =>
        /\ processed.result =
               (processed.modified /\ ~HasLine("error_writing", processed.path))
        /\ ~processed.modified => disk[processed.path] = disk0[processed.path]

C7_Witness ==
    /\ Called /\ processed.modified /\ ~processed.result
    /\ HasLine("error_writing", processed.path)

\* C8: a document whose write failed has its content of before the run
C8_NoPartialWrite ==
    \A f \in Range(files) : HasLine("error_writing", f) => disk[f] = disk0[f]

\* what a finished run must have done
BatchFinal ==
    /\ Visited = files
    /\ out[Len(out)] = Line("summary", <<>>, Len(UpdatedLines))
    /\ \A f \in Range(files) :
        /\ disk0[f].kind # "file" => (HasLine("warning", f) /\ disk[f] = disk0[f])
        /\ HasLine("error_reading", f) =>
               (disk[f] = disk0[f] /\ ~HasLine("updated", f))
        /\ (/\ disk0[f].kind = "file"
            /\ ~HasLine("error_reading", f)
            /\ ~HasLine("error_writing", f)) =>
               /\ disk[f].text = link_pattern_sub(disk0[f].text, f).text
               /\ HasLine("updated", f) = (disk[f] # disk0[f])

\* C9: whatever documents are missing, unreadable or unwritable, the run
\* reaches the summary, and by then it has turned to every document in order,
\* left the failing ones out of the count and rewritten the others
C9_BatchCompletes == <>(pc = "done") /\ [](pc = "done" => BatchFinal)

C9_Witness ==
    /\ pc = "done"
    /\ Len(files) = 2
    /\ HasLine("error_reading", files[1]) \/ HasLine("warning", files[1])
    /\ HasLine("updated", files[2])
    /\ out[Len(out)].n = 1

====
